---- MODULE Spec2Model ----
(***************************************************************************)
(* A model of tfinit.py: azure_state_setup (the Terraform state-store      *)
(* provisioner) and azure_peering (the VNet peering initiator), each run   *)
(* against a model of the Azure subscription the SDK calls act on.         *)
(*                                                                         *)
(* Every provider call of the two functions is one step, so that a         *)
(* provider failure (CloudError) can abort a run between any two calls.    *)
(***************************************************************************)
EXTENDS Integers, Sequences, FiniteSets, TLC

(***************************************************************************)
(* Bounds of the model.                                                    *)
(***************************************************************************)
MaxRuns == 2          \* calls of azure_state_setup in one behaviour
MaxRotations == 1     \* key regenerations by the environment between runs
MaxPolls == 2         \* the poll counter saturates here

(***************************************************************************)
(* Inputs and the names found in a subscription.                           *)
(***************************************************************************)
Orgs == {"acme", "zeta"}                       \* vnet.orgName
Suffixes == {"a1b2c3", "x9y8z7"}               \* results of random_generator()
PreVaults == {"acme-tfstate-kv", "acme-tfstate-kv2"}
PreAccounts == {"acmetfstateq7w8e9", "oldtfstate", "acmetfstat"}
PreContainers == {{"tfstate"}, {"tfstate-old"}}
\* what storage_accounts.list() may return at the start: none, one or two accounts
PreListings ==
    {<<>>} \cup {<<a>> : a \in PreAccounts}
           \cup {<<p[1], p[2]>> : p \in {q \in PreAccounts \X PreAccounts : q[1] # q[2]}}
Subscriptions == {"sub-a", "sub-b"}            \* sub1, sub2
AddressSpaces == {<<"10.0.0.0/16">>, <<"10.1.0.0/16">>, <<"10.1.0.0/16", "10.2.0.0/16">>}

\* random_generator(size=6): a 6-character string
random_generator == {s \in Suffixes : Len(s) = 6}

keyvault_name(o) == o \o "-tfstate-kv"
storage_prefix(o) == o \o "tfstate"
resource_group(o) == o \o "-tfstate-rg"

AllAccounts == PreAccounts \cup {storage_prefix(o) \o s : o \in Orgs, s \in Suffixes}

\* Python's `p in s` on strings: p occurs in s as a contiguous substring
Contains(p, s) ==
    \E i \in 1..(Len(s) - Len(p) + 1) : SubSeq(s, i, i + Len(p) - 1) = p

Range(f) == {f[i] : i \in DOMAIN f}

NoKey == <<"", "", 0>>
NoKeys == [key1 |-> NoKey, key2 |-> NoKey]
NoCalls == [rg |-> 0, kv |-> 0, sa |-> 0, ct |-> 0]
SecretNames == {"tfstate1", "tfstate2"}

VARIABLES
    \* the subscription
    resource_groups,      \* names of the resource groups that exist
    vaults,               \* names of the key vaults vaults.list() returns
    storage_accounts,     \* storage_accounts.list(), in listing order
    blob_containers,      \* <<account, container>> pairs that exist
    key_version,          \* account -> how often its keys were regenerated
    secrets,              \* secret name -> value, in the vault at vault_uri
    rotations,
    \* azure_state_setup: arguments, locals and position
    pc, orgName, run, candidate, storage_account_name,
    keyvault_exists, storage_account_exists, stg_name_availability, keys, result,
    \* what the runs did
    run_calls,            \* creation calls issued by the current run
    total_calls,          \* creation calls issued by all runs
    written,              \* secret name -> value last set by the current run
    touched,              \* accounts the current run fetched keys of or checked
    fresh,                \* the subscription was empty at the start
    aborted,              \* runs ended by a provider failure
    prev,                 \* result of the run before the current one
    \* azure_peering
    p_pc, sub1, sub2, cloud_vnets, vnet1_obj, vnet2_obj, op_state, polls,
    peering_calls, printed

svars == <<resource_groups, vaults, storage_accounts, blob_containers, key_version,
           secrets, rotations, pc, orgName, run, candidate, storage_account_name,
           keyvault_exists, storage_account_exists, stg_name_availability, keys,
           result, run_calls, total_calls, written, touched, fresh, aborted, prev>>
pvars == <<p_pc, sub1, sub2, cloud_vnets, vnet1_obj, vnet2_obj, op_state, polls,
           peering_calls, printed>>
vars == <<svars, pvars>>

cloud == <<resource_groups, vaults, storage_accounts, blob_containers, key_version,
           secrets, rotations>>
history == <<fresh, aborted, prev, stg_name_availability>>

\* storage_accounts.list_keys(rg, name).keys as the dict {key_name: value}
ListKeys(name) ==
    [key1 |-> <<name, "key1", key_version[name]>>,
     key2 |-> <<name, "key2", key_version[name]>>]

NoResult(kind) == [kind |-> kind, key1 |-> NoKey, key2 |-> NoKey, name |-> ""]

NoVnet == [id |-> "", prefixes |-> <<>>]

\* the virtual network (sub, rg, name) names
VnetId(sub, rg, name) ==
    "/subscriptions/" \o sub \o "/resourceGroups/" \o rg \o "/virtualNetworks/" \o name

\* azure_peering has not been called
PeeringIdle ==
    /\ p_pc = "idle"
    /\ sub1 = "sub-a"
    /\ sub2 = "sub-b"
    /\ cloud_vnets = <<[exists |-> TRUE, id |-> VnetId("sub-a", "rg1", "vnet1"),
                        prefixes |-> <<"10.0.0.0/16">>],
                       [exists |-> TRUE, id |-> VnetId("sub-b", "rg2", "vnet2"),
                        prefixes |-> <<"10.1.0.0/16">>]>>
    /\ vnet1_obj = NoVnet
    /\ vnet2_obj = NoVnet
    /\ op_state = "none"
    /\ polls = 0
    /\ peering_calls = <<>>
    /\ printed = {}

Init ==
    /\ orgName \in Orgs
    /\ resource_groups \in {{}, {resource_group(orgName)}}
    /\ vaults \in SUBSET PreVaults
    /\ storage_accounts \in PreListings
    /\ \E c \in [Range(storage_accounts) -> PreContainers] :
          blob_containers = UNION {{<<a, n>> : n \in c[a]} : a \in Range(storage_accounts)}
    /\ key_version = [a \in AllAccounts |-> 0]
    /\ secrets = [n \in SecretNames |-> NoKey]
    /\ rotations = 0
    /\ pc = "idle"
    /\ run = 0
    /\ candidate = ""
    /\ storage_account_name = ""
    /\ keyvault_exists = FALSE
    /\ storage_account_exists = FALSE
    /\ stg_name_availability = "unset"
    /\ keys = NoKeys
    /\ result = NoResult("norun")
    /\ run_calls = NoCalls
    /\ total_calls = NoCalls
    /\ written = [n \in SecretNames |-> NoKey]
    /\ touched = {}
    /\ fresh = (resource_groups = {} /\ vaults = {} /\ storage_accounts = <<>>)
    /\ aborted = 0
    /\ prev = NoResult("norun")
    /\ PeeringIdle

\* azure_state_setup has not been called, on an empty subscription
SetupIdle ==
    /\ orgName = "acme"
    /\ resource_groups = {}
    /\ vaults = {}
    /\ storage_accounts = <<>>
    /\ blob_containers = {}
    /\ key_version = [a \in AllAccounts |-> 0]
    /\ secrets = [n \in SecretNames |-> NoKey]
    /\ rotations = 0
    /\ pc = "idle"
    /\ run = 0
    /\ candidate = ""
    /\ storage_account_name = ""
    /\ keyvault_exists = FALSE
    /\ storage_account_exists = FALSE
    /\ stg_name_availability = "unset"
    /\ keys = NoKeys
    /\ result = NoResult("norun")
    /\ run_calls = NoCalls
    /\ total_calls = NoCalls
    /\ written = [n \in SecretNames |-> NoKey]
    /\ touched = {}
    /\ fresh = TRUE
    /\ aborted = 0
    /\ prev = NoResult("norun")

(***************************************************************************)
(* azure_state_setup, one action per provider call.                        *)
(***************************************************************************)
Bump(c, f) == [c EXCEPT ![f] = @ + 1]

\* azure_state_setup(vnet, ops_subscription) is entered: lines 35-38
Call ==
    /\ pc \in {"idle", "returned", "raised"}
    /\ run < MaxRuns
    /\ run' = run + 1
    /\ \E s \in random_generator :
          /\ candidate' = storage_prefix(orgName) \o s
          /\ storage_account_name' = storage_prefix(orgName) \o s
    /\ keyvault_exists' = FALSE
    /\ storage_account_exists' = FALSE
    /\ stg_name_availability' = "unset"
    /\ keys' = NoKeys
    /\ prev' = result
    /\ result' = NoResult("pending")
    /\ run_calls' = NoCalls
    /\ written' = [n \in SecretNames |-> NoKey]
    /\ touched' = {}
    /\ pc' = "register"
    /\ UNCHANGED <<cloud, orgName, total_calls, fresh, aborted, pvars>>

\* line 60
Register ==
    /\ pc = "register"
    /\ pc' = "rg_check"
    /\ UNCHANGED <<cloud, orgName, run, candidate, storage_account_name,
                   keyvault_exists, storage_account_exists, keys, result,
                   run_calls, total_calls, written, touched, history, pvars>>

\* line 63
CheckResourceGroup ==
    /\ pc = "rg_check"
    /\ pc' = IF resource_group(orgName) \notin resource_groups
             THEN "rg_create" ELSE "kv_list"
    /\ UNCHANGED <<cloud, orgName, run, candidate, storage_account_name,
                   keyvault_exists, storage_account_exists, keys, result,
                   run_calls, total_calls, written, touched, history, pvars>>

\* lines 64-65
CreateResourceGroup ==
    /\ pc = "rg_create"
    /\ resource_groups' = resource_groups \cup {resource_group(orgName)}
    /\ run_calls' = Bump(run_calls, "rg")
    /\ total_calls' = Bump(total_calls, "rg")
    /\ pc' = "kv_list"
    /\ UNCHANGED <<vaults, storage_accounts, blob_containers, key_version, secrets,
                   rotations, orgName, run, candidate, storage_account_name,
                   keyvault_exists, storage_account_exists, keys, result,
                   written, touched, history, pvars>>

\* line 78 with the containment test of line 118
VaultFoundSubstring(listed, name) ==
    /\ Cardinality(listed) > 0
    /\ \E item \in listed : Contains(name, item)

\* lines 69-80: count the vaults, then look for the derived name
VaultFound(listed, name) ==
    /\ Cardinality(listed) > 0
    /\ \E item \in listed : item = name

ListVaults ==
    /\ pc = "kv_list"
    /\ keyvault_exists' = VaultFound(vaults, keyvault_name(orgName))
    /\ pc' = IF keyvault_exists' THEN "sa_list" ELSE "kv_create"
    /\ UNCHANGED <<cloud, orgName, run, candidate, storage_account_name,
                   storage_account_exists, keys, result,
                   run_calls, total_calls, written, touched, history, pvars>>

\* lines 82-105
CreateVault ==
    /\ pc = "kv_create"
    /\ vaults' = vaults \cup {keyvault_name(orgName)}
    /\ run_calls' = Bump(run_calls, "kv")
    /\ total_calls' = Bump(total_calls, "kv")
    /\ pc' = "sa_list"
    /\ UNCHANGED <<resource_groups, storage_accounts, blob_containers, key_version,
                   secrets, rotations, orgName, run, candidate, storage_account_name,
                   keyvault_exists, storage_account_exists, keys, result,
                   written, touched, history, pvars>>

\* line 118 comparing with the name this run derived
AccountMatchesExact(name) == name = candidate

\* line 118
AccountMatches(name) == Contains("tfstate", name)

\* lines 117-123 with a break after the first match
RECURSIVE ScanAccountsFirst(_, _, _)
ScanAccountsFirst(listed, i, acc) ==
    IF i > Len(listed) THEN acc
    ELSE IF AccountMatches(listed[i])
         THEN [name |-> listed[i], exists |-> TRUE]
         ELSE ScanAccountsFirst(listed, i + 1, acc)

\* lines 117-123: the loop over the listed accounts, from item i on, carrying
\* the locals storage_account_name and storage_account_exists
RECURSIVE ScanAccounts(_, _, _)
ScanAccounts(listed, i, acc) ==
    IF i > Len(listed) THEN acc
    ELSE ScanAccounts(listed, i + 1,
                      IF AccountMatches(listed[i])
                      THEN [name |-> listed[i], exists |-> TRUE]
                      ELSE acc)

\* lines 109-123
ListAccounts ==
    /\ pc = "sa_list"
    /\ LET found == IF Len(storage_accounts) > 0
                    THEN ScanAccounts(storage_accounts, 1,
                                      [name |-> storage_account_name, exists |-> FALSE])
                    ELSE [name |-> storage_account_name, exists |-> FALSE]
       IN /\ storage_account_name' = found.name
          /\ storage_account_exists' = found.exists
          /\ pc' = IF found.exists THEN "keys_existing" ELSE "sa_avail"
    /\ UNCHANGED <<cloud, orgName, run, candidate, keyvault_exists, keys, result,
                   run_calls, total_calls, written, touched, history, pvars>>

\* lines 151-155 left out: the answer is not acted on
CheckNameAvailabilityIgnored ==
    /\ pc = "sa_avail"
    /\ \E available \in
            IF storage_account_name \in Range(storage_accounts) THEN {FALSE} ELSE BOOLEAN :
          stg_name_availability' = IF available THEN "available" ELSE "unavailable"
    /\ pc' = "sa_create"
    /\ UNCHANGED <<cloud, orgName, run, candidate, storage_account_name,
                   keyvault_exists, storage_account_exists, keys, result,
                   run_calls, total_calls, written, touched, fresh, aborted, prev, pvars>>

\* lines 125-130 and 151-155: check_name_availability; the answer is the
\* service's, and a name this subscription already holds is never available
CheckNameAvailability ==
    /\ pc = "sa_avail"
    /\ \E available \in
            IF storage_account_name \in Range(storage_accounts) THEN {FALSE} ELSE BOOLEAN :
          IF available
          THEN /\ stg_name_availability' = "available"
               /\ pc' = "sa_create"
               /\ result' = result
          ELSE /\ stg_name_availability' = "unavailable"
               /\ pc' = "returned"
               /\ result' = NoResult("none")
    /\ UNCHANGED <<cloud, orgName, run, candidate, storage_account_name,
                   keyvault_exists, storage_account_exists, keys,
                   run_calls, total_calls, written, touched, fresh, aborted, prev, pvars>>

\* lines 131-141
CreateStorageAccount ==
    /\ pc = "sa_create"
    /\ storage_accounts' = Append(storage_accounts, storage_account_name)
    /\ run_calls' = Bump(run_calls, "sa")
    /\ total_calls' = Bump(total_calls, "sa")
    /\ pc' = "ct_create_new"
    /\ UNCHANGED <<resource_groups, vaults, blob_containers, key_version, secrets,
                   rotations, orgName, run, candidate, storage_account_name,
                   keyvault_exists, storage_account_exists, keys, result,
                   written, touched, history, pvars>>

\* blob_containers.create(resource_group, storage_account_name, 'tfstate')
CreateContainer(pos, next) ==
    /\ pc = pos
    /\ blob_containers' = blob_containers \cup {<<storage_account_name, "tfstate">>}
    /\ run_calls' = Bump(run_calls, "ct")
    /\ total_calls' = Bump(total_calls, "ct")
    /\ touched' = touched \cup {storage_account_name}
    /\ pc' = next
    /\ UNCHANGED <<resource_groups, vaults, storage_accounts, key_version, secrets,
                   rotations, orgName, run, candidate, storage_account_name,
                   keyvault_exists, storage_account_exists, keys, result,
                   written, history, pvars>>

\* line 144 left out
CreateContainerNewSkipped ==
    /\ pc = "ct_create_new"
    /\ pc' = "keys_new"
    /\ UNCHANGED <<cloud, orgName, run, candidate, storage_account_name,
                   keyvault_exists, storage_account_exists, keys, result,
                   run_calls, total_calls, written, touched, history, pvars>>

\* lines 144-145
CreateContainerNew == CreateContainer("ct_create_new", "keys_new")

\* storage_accounts.list_keys(resource_group, storage_account_name)
FetchKeys(pos, next) ==
    /\ pc = pos
    /\ keys' = ListKeys(storage_account_name)
    /\ touched' = touched \cup {storage_account_name}
    /\ pc' = next
    /\ UNCHANGED <<cloud, orgName, run, candidate, storage_account_name,
                   keyvault_exists, storage_account_exists, result,
                   run_calls, total_calls, written, history, pvars>>

\* lines 148-149
ListKeysNew == FetchKeys("keys_new", "secret1")

\* lines 159-160
ListKeysExisting == FetchKeys("keys_existing", "ct_list")

\* lines 164-169 left out: an existing account is taken to hold the container
ContainerListedAssumed(account, name) == TRUE

\* lines 164-169: the names blob_service.list_containers() returns
ContainerListed(account, name) ==
    name \in {c[2] : c \in {d \in blob_containers : d[1] = account}}

\* lines 163-173
ListContainers ==
    /\ pc = "ct_list"
    /\ touched' = touched \cup {storage_account_name}
    /\ pc' = IF ~ContainerListed(storage_account_name, "tfstate")
             THEN "ct_create_existing" ELSE "secret1"
    /\ UNCHANGED <<cloud, orgName, run, candidate, storage_account_name,
                   keyvault_exists, storage_account_exists, keys, result,
                   run_calls, total_calls, written, history, pvars>>

\* lines 170-171
CreateContainerExisting == CreateContainer("ct_create_existing", "secret1")

\* lines 178-179 with the two secret names exchanged
SetSecretSwapped(name, value) ==
    LET other == IF name = "tfstate1" THEN "tfstate2" ELSE "tfstate1"
    IN /\ secrets' = [secrets EXCEPT ![other] = value]
       /\ written' = [written EXCEPT ![other] = value]

\* secret_client.set_secret(name, value)
SetSecret(name, value) ==
    /\ secrets' = [secrets EXCEPT ![name] = value]
    /\ written' = [written EXCEPT ![name] = value]

\* lines 177-178
SetSecret1 ==
    /\ pc = "secret1"
    /\ SetSecret("tfstate1", keys.key1)
    /\ pc' = "secret2"
    /\ UNCHANGED <<resource_groups, vaults, storage_accounts, blob_containers,
                   key_version, rotations, orgName, run, candidate,
                   storage_account_name, keyvault_exists, storage_account_exists,
                   keys, result, run_calls, total_calls, touched, history, pvars>>

\* lines 179-182
SetSecret2AndReturn ==
    /\ pc = "secret2"
    /\ SetSecret("tfstate2", keys.key2)
    /\ result' = [kind |-> "tuple", key1 |-> keys.key1, key2 |-> keys.key2,
                  name |-> storage_account_name]
    /\ pc' = "returned"
    /\ UNCHANGED <<resource_groups, vaults, storage_accounts, blob_containers,
                   key_version, rotations, orgName, run, candidate,
                   storage_account_name, keyvault_exists, storage_account_exists,
                   keys, run_calls, total_calls, touched, history, pvars>>

\* the positions at which the next statement is a provider call
ProviderCalls ==
    {"register", "rg_check", "rg_create", "kv_list", "kv_create", "sa_list",
     "sa_avail", "sa_create", "ct_create_new", "keys_new", "keys_existing",
     "ct_list", "ct_create_existing", "secret1", "secret2"}

\* a provider call raises; azure_state_setup has no handler, the run ends
ProviderFailure ==
    /\ pc \in ProviderCalls
    /\ pc' = "raised"
    /\ result' = NoResult("raised")
    /\ aborted' = aborted + 1
    /\ UNCHANGED <<cloud, orgName, run, candidate, storage_account_name,
                   keyvault_exists, storage_account_exists, keys,
                   run_calls, total_calls, written, touched, fresh, prev,
                   stg_name_availability, pvars>>

\* between runs, the owner of an account regenerates its keys; "returned" and
\* "raised" are the states a run ends in, "idle" the states after the
\* subscription has changed since
RotateKeys ==
    /\ pc \in {"idle", "returned", "raised"}
    /\ rotations < MaxRotations
    /\ \E a \in Range(storage_accounts) :
          key_version' = [key_version EXCEPT ![a] = @ + 1]
    /\ rotations' = rotations + 1
    /\ pc' = "idle"
    /\ UNCHANGED <<resource_groups, vaults, storage_accounts, blob_containers,
                   secrets, orgName, run, candidate, storage_account_name,
                   keyvault_exists, storage_account_exists, keys, result,
                   run_calls, total_calls, written, touched, history, pvars>>

Next ==
    \/ Call
    \/ Register
    \/ CheckResourceGroup
    \/ CreateResourceGroup
    \/ ListVaults
    \/ CreateVault
    \/ ListAccounts
    \/ CheckNameAvailability
    \/ CreateStorageAccount
    \/ CreateContainerNew
    \/ ListKeysNew
    \/ ListKeysExisting
    \/ ListContainers
    \/ CreateContainerExisting
    \/ SetSecret1
    \/ SetSecret2AndReturn
    \/ ProviderFailure
    \/ RotateKeys

Spec == Init /\ [][Next]_vars

(***************************************************************************)
(* azure_peering(sub1, rg1, vnet1, sub2, rg2, vnet2), one action per       *)
(* provider call.  network_client_k is the client built for sub k.         *)
(***************************************************************************)
PeeringInit ==
    /\ p_pc = "idle"
    /\ sub1 \in Subscriptions
    /\ sub2 \in Subscriptions
    /\ \E e1, e2 \in BOOLEAN, a1, a2 \in AddressSpaces :
          cloud_vnets = <<[exists |-> e1, id |-> VnetId(sub1, "rg1", "vnet1"),
                           prefixes |-> a1],
                          [exists |-> e2, id |-> VnetId(sub2, "rg2", "vnet2"),
                           prefixes |-> a2]>>
    /\ vnet1_obj = NoVnet
    /\ vnet2_obj = NoVnet
    /\ op_state = "none"
    /\ polls = 0
    /\ peering_calls = <<>>
    /\ printed = {}
    /\ SetupIdle

\* lines 186-192
PeeringCall ==
    /\ p_pc = "idle"
    /\ p_pc' = "get1"
    /\ UNCHANGED <<sub1, sub2, cloud_vnets, vnet1_obj, vnet2_obj, op_state, polls,
                   peering_calls, printed, svars>>

\* network_client_k.virtual_networks.get(rg, name): the network, or CloudError
GetVnet(k) == [id |-> cloud_vnets[k].id, prefixes |-> cloud_vnets[k].prefixes]

\* what becomes of a CloudError raised at lines 194-195: outside the try
\* statement, it leaves azure_peering
RaisedOutsideTry ==
    /\ p_pc' = "raised"
    /\ printed' = printed

\* what becomes of a CloudError raised at lines 198-216: lines 217-218
RaisedInsideTry ==
    /\ p_pc' = "returned"
    /\ printed' = printed \cup {"error"}

\* line 194
GetVnet1 ==
    /\ p_pc = "get1"
    /\ \/ /\ cloud_vnets[1].exists
          /\ vnet1_obj' = GetVnet(1)
          /\ p_pc' = "get2"
          /\ printed' = printed
       \/ /\ RaisedOutsideTry
          /\ vnet1_obj' = vnet1_obj
    /\ UNCHANGED <<sub1, sub2, cloud_vnets, vnet2_obj, op_state, polls,
                   peering_calls, svars>>

\* line 195
GetVnet2 ==
    /\ p_pc = "get2"
    /\ \/ /\ cloud_vnets[2].exists
          /\ vnet2_obj' = GetVnet(2)
          /\ p_pc' = "create"
          /\ printed' = printed
       \/ /\ RaisedOutsideTry
          /\ vnet2_obj' = vnet2_obj
    /\ UNCHANGED <<sub1, sub2, cloud_vnets, vnet1_obj, op_state, polls,
                   peering_calls, svars>>

\* lines 198-212 with the two networks exchanged
PeeringRequestReversed ==
    [client |-> 2, subscription |-> sub2, rg |-> "rg2", vnet |-> "vnet2",
     name |-> "hubpeering", remote_id |-> vnet1_obj.id,
     allow_virtual_network_access |-> TRUE, allow_forwarded_traffic |-> TRUE,
     address_prefixes |-> vnet1_obj.prefixes]

\* lines 198-212: the call network_client_1...create_or_update receives
PeeringRequest ==
    [client |-> 1, subscription |-> sub1, rg |-> "rg1", vnet |-> "vnet1",
     name |-> "hubpeering", remote_id |-> vnet2_obj.id,
     allow_virtual_network_access |-> TRUE, allow_forwarded_traffic |-> TRUE,
     address_prefixes |-> vnet2_obj.prefixes]

\* lines 198-212
CreatePeering ==
    /\ p_pc = "create"
    /\ \/ /\ peering_calls' = Append(peering_calls, PeeringRequest)
          /\ op_state' = "InProgress"
          /\ p_pc' = "poll"
          /\ printed' = printed
       \/ /\ RaisedInsideTry
          /\ UNCHANGED <<peering_calls, op_state>>
    /\ UNCHANGED <<sub1, sub2, cloud_vnets, vnet1_obj, vnet2_obj, polls, svars>>

\* async_vnet_peering.done()
OperationDone(state) == state \in {"Succeeded", "Failed"}

\* line 213 without the negation
LoopContinuesInverted(state) == OperationDone(state)

\* line 213: the loop condition
LoopContinues(state) == ~OperationDone(state)

\* lines 213-215: one turn of the loop
PollWait ==
    /\ p_pc = "poll"
    /\ LoopContinues(op_state)
    /\ polls' = IF polls < MaxPolls THEN polls + 1 ELSE polls
    /\ printed' = printed \cup {"status"}
    /\ UNCHANGED <<p_pc, sub1, sub2, cloud_vnets, vnet1_obj, vnet2_obj, op_state,
                   peering_calls, svars>>

\* lines 213 and 216: the loop ends
PollExit ==
    /\ p_pc = "poll"
    /\ ~LoopContinues(op_state)
    /\ printed' = printed \cup {"completed"}
    /\ p_pc' = "returned"
    /\ UNCHANGED <<sub1, sub2, cloud_vnets, vnet1_obj, vnet2_obj, op_state, polls,
                   peering_calls, svars>>

\* lines 213-215 raise CloudError
PollError ==
    /\ p_pc = "poll"
    /\ RaisedInsideTry
    /\ UNCHANGED <<sub1, sub2, cloud_vnets, vnet1_obj, vnet2_obj, op_state, polls,
                   peering_calls, svars>>

\* the service finishes the long-running operation
OperationCompletes ==
    /\ op_state = "InProgress"
    /\ op_state' \in {"Succeeded", "Failed"}
    /\ UNCHANGED <<p_pc, sub1, sub2, cloud_vnets, vnet1_obj, vnet2_obj, polls,
                   peering_calls, printed, svars>>

PeeringStep ==
    \/ PeeringCall
    \/ GetVnet1
    \/ GetVnet2
    \/ CreatePeering
    \/ PollWait
    \/ PollExit
    \/ PollError

PeeringNext ==
    \/ PeeringStep
    \/ OperationCompletes

PeeringSpec == PeeringInit /\ [][PeeringNext]_vars

\* azure_peering is synchronous code that keeps running: a step it can take,
\* it takes
PeeringFairSpec == PeeringSpec /\ WF_vars(PeeringStep)

(***************************************************************************)
(* The properties.                                                         *)
(***************************************************************************)
OneEach == [rg |-> 1, kv |-> 1, sa |-> 1, ct |-> 1]

\* the key an account holds now
CurrentKey(account, slot) == <<account, slot, key_version[account]>>

HoldsTfstate(account) == <<account, "tfstate">> \in blob_containers

\* the positions of the listing of storage_accounts that contain 'tfstate'
Matching == {i \in DOMAIN storage_accounts : Contains("tfstate", storage_accounts[i])}

\* the run has returned (key1, key2, account_name) and nothing has happened since
ReturnedTuple == pc = "returned" /\ result.kind = "tuple"

\* C1: from a subscription with no resource group, vault or storage account,
\* with the candidate name available, the first run issues exactly one creation
\* call of each kind (resource group, vault, account, container), and at its
\* return tfstate1 and tfstate2 hold the created account's current key1 and key2.
C1_FreshRunCreatesEachOnce ==
    (ReturnedTuple /\ fresh /\ run = 1) =>
        /\ run_calls = OneEach
        /\ total_calls = OneEach
        /\ result.name = candidate
        /\ storage_accounts = <<candidate>>
        /\ HoldsTfstate(candidate)
        /\ resource_groups = {resource_group(orgName)}
        /\ vaults = {keyvault_name(orgName)}
        /\ secrets["tfstate1"] = CurrentKey(candidate, "key1")
        /\ secrets["tfstate2"] = CurrentKey(candidate, "key2")

C1_Witness ==
    /\ ReturnedTuple /\ fresh /\ run = 1
    /\ stg_name_availability = "available"

\* C2: a run that follows a run which returned a tuple, with the account's keys
\* as that run returned them, issues no creation call and returns the same
\* account name and keys, whatever candidate name it drew.
C2_RerunCreatesNothing ==
    (/\ ReturnedTuple
     /\ prev.kind = "tuple"
     /\ CurrentKey(prev.name, "key1") = prev.key1
     /\ CurrentKey(prev.name, "key2") = prev.key2) =>
        /\ run_calls = NoCalls
        /\ result = prev

\* the first run created the account, the second drew another candidate name
C2_Witness ==
    /\ ReturnedTuple
    /\ prev.kind = "tuple"
    /\ run = 2
    /\ total_calls = OneEach
    /\ candidate # result.name
    /\ result = prev

\* C3: once check_name_availability has answered that the candidate name is
\* unavailable, the run has returned None (it has not raised), and it has issued
\* no storage account creation and no container creation.
C3_UnavailableReturnsNone ==
    (stg_name_availability = "unavailable") =>
        /\ pc \in {"returned", "idle"}
        /\ result = NoResult("none")
        /\ ~storage_account_exists
        /\ run_calls.sa = 0
        /\ run_calls.ct = 0
        /\ candidate \notin Range(storage_accounts)

C3_Witness ==
    /\ stg_name_availability = "unavailable"
    /\ pc = "returned"
    /\ run_calls.rg = 1
    /\ run_calls.kv = 1

\* C4: no CloudError raised by a provider call of azure_peering leaves
\* azure_peering: each is caught and printed, and azure_peering returns.
C4_NoErrorPropagates == p_pc # "raised"

\* C5: when azure_peering has returned without a provider failure, it has issued
\* exactly one create_or_update, through the client of subscription 1, on vnet 1
\* in resource group 1, named 'hubpeering', with vnet 2's id and vnet 2's address
\* prefixes; and no create_or_update is ever issued through client 2.
C5_OnePeeringOnVnet1 ==
    /\ \A i \in DOMAIN peering_calls : peering_calls[i].client # 2
    /\ Len(peering_calls) <= 1
    /\ (p_pc = "returned" /\ "error" \notin printed) =>
          /\ Len(peering_calls) = 1
          /\ peering_calls[1].client = 1
          /\ peering_calls[1].subscription = sub1
          /\ peering_calls[1].rg = "rg1"
          /\ peering_calls[1].vnet = "vnet1"
          /\ peering_calls[1].name = "hubpeering"
          /\ peering_calls[1].remote_id = cloud_vnets[2].id
          /\ peering_calls[1].address_prefixes = cloud_vnets[2].prefixes

\* both networks in one subscription, with different address spaces
C5_Witness ==
    /\ p_pc = "returned"
    /\ "error" \notin printed
    /\ sub1 = sub2
    /\ cloud_vnets[1].prefixes # cloud_vnets[2].prefixes
    /\ Len(cloud_vnets[2].prefixes) = 2

\* C6: a run goes on to create the vault exactly when no listed vault is named
\* '<org>-tfstate-kv' (a vault whose name only contains that name does not count),
\* and goes on to create a storage account exactly when no listed account name
\* contains 'tfstate'.
C6_DiscoveryPolicies ==
    /\ (pc = "kv_create") => keyvault_name(orgName) \notin vaults
    /\ (pc = "sa_list" /\ run_calls.kv = 0) => keyvault_name(orgName) \in vaults
    /\ (pc = "sa_avail") => Matching = {}
    /\ (pc = "keys_existing") => Matching # {}

\* the vault is created beside one whose name contains the derived name, and an
\* account of another organization is taken as the state account
C6_Witness ==
    /\ pc = "keys_existing"
    /\ run_calls.kv = 1
    /\ \E v \in vaults : v # keyvault_name(orgName) /\ Contains(keyvault_name(orgName), v)
    /\ ~Contains(storage_prefix(orgName), storage_account_name)

\* C7: on a subscription that was empty, a run that returns a tuple after every
\* earlier run was aborted by a provider failure leaves exactly one resource
\* group, one vault, one storage account (with 'tfstate' in its name) holding a
\* 'tfstate' container, and the secrets equal to its keys; each resource was
\* created once over all the runs.
C7_ResumesAfterAbort ==
    (ReturnedTuple /\ fresh /\ aborted >= 1 /\ aborted = run - 1) =>
        /\ total_calls = OneEach
        /\ resource_groups = {resource_group(orgName)}
        /\ vaults = {keyvault_name(orgName)}
        /\ storage_accounts = <<result.name>>
        /\ Contains("tfstate", result.name)
        /\ {c \in blob_containers : c[1] = result.name} = {<<result.name, "tfstate">>}
        /\ secrets["tfstate1"] = CurrentKey(result.name, "key1")
        /\ secrets["tfstate2"] = CurrentKey(result.name, "key2")

\* the aborted run had created the account but not its container
C7_Witness ==
    /\ ReturnedTuple /\ fresh /\ aborted >= 1 /\ aborted = run - 1
    /\ candidate # result.name
    /\ run_calls = [rg |-> 0, kv |-> 0, sa |-> 0, ct |-> 1]

\* C8: 'peering completed' is printed only when the operation reports done;
\* azure_peering returns only when the operation reports done or a CloudError
\* was caught; and once the operation reports done, azure_peering returns.
C8_PollingLoop ==
    /\ []("completed" \in printed => OperationDone(op_state))
    /\ [](p_pc = "returned" => (OperationDone(op_state) \/ "error" \in printed))
    /\ (OperationDone(op_state) ~> p_pc = "returned")

\* the loop has turned, and ended on the operation's completion
C8_Witness ==
    /\ p_pc = "returned"
    /\ printed = {"status", "completed"}
    /\ polls = MaxPolls

\* C9: when a run returns a tuple, the named account exists and holds a
\* 'tfstate' container, the returned keys are the account's keys as fetched in
\* the run, and the run's last writes of tfstate1 and tfstate2 are the returned
\* key1 and key2; a run writes no secret before it has fetched the keys, and a
\* run that returns None writes none.
C9_ReturnedTupleIsBacked ==
    /\ ReturnedTuple =>
          /\ result.name \in Range(storage_accounts)
          /\ HoldsTfstate(result.name)
          /\ result.name \in touched
          /\ result.key1 = CurrentKey(result.name, "key1")
          /\ result.key2 = CurrentKey(result.name, "key2")
          /\ written = [n \in SecretNames |->
                           IF n = "tfstate1" THEN result.key1 ELSE result.key2]
          /\ secrets = written
    /\ (\E n \in SecretNames : written[n] # NoKey) => keys # NoKeys
    /\ (result.kind = "none") => \A n \in SecretNames : written[n] = NoKey

\* an existing account whose container the run had to create
C9_Witness ==
    /\ ReturnedTuple
    /\ storage_account_exists
    /\ run_calls.ct = 1
    /\ rotations = 1

\* the last account of the listing whose name contains 'tfstate'
LastMatching == storage_accounts[CHOOSE i \in Matching : \A j \in Matching : j <= i]

AfterListing ==
    {"sa_avail", "sa_create", "ct_create_new", "keys_new", "keys_existing",
     "ct_list", "ct_create_existing", "secret1", "secret2", "returned"}

\* C10: when more than one listed account name contains 'tfstate', a run
\* creates no storage account, takes the last such account of the listing as
\* storage_account_name, fetches keys and checks or creates the container of
\* that account only, and returns and stores that account's keys.
C10_LastMatchSelected ==
    (Cardinality(Matching) > 1 /\ run >= 1) =>
        /\ run_calls.sa = 0
        /\ touched \subseteq {LastMatching}
        /\ (pc \in AfterListing) =>
              /\ storage_account_exists
              /\ storage_account_name = LastMatching
        /\ (pc = "returned") =>
              /\ result = [kind |-> "tuple", name |-> LastMatching,
                           key1 |-> CurrentKey(LastMatching, "key1"),
                           key2 |-> CurrentKey(LastMatching, "key2")]
              /\ secrets["tfstate1"] = result.key1
              /\ secrets["tfstate2"] = result.key2

\* two matching accounts, neither holding the container: one gets it
C10_Witness ==
    /\ Cardinality(Matching) > 1
    /\ pc = "returned"
    /\ run_calls.ct = 1
    /\ \E a \in Range(storage_accounts) :
          Contains("tfstate", a) /\ a # LastMatching /\ ~HoldsTfstate(a)

====
